---- MODULE Spec2Model ----
(***************************************************************************)
(* ZoneValidator: the FabricValidator core (deduplication, host grouping,  *)
(* per-fabric rule, final verdict, sort) as a state machine.               *)
(*                                                                         *)
(* A JavaScript string is a sequence of one-character strings, so that the *)
(* template-literal key, the regular-expression replace, toLowerCase and   *)
(* localeCompare are computed character by character.  A field value is a  *)
(* record [k, v]: k is the JavaScript type ("string", "number",            *)
(* "undefined") and v the characters of its string conversion.             *)
(***************************************************************************)
EXTENDS Integers, Sequences, FiniteSets, TLC

VARIABLES
    input,              \* the row array handed to the first constructor
    phase,              \* "new" | "constructed" | "validated" | "failed"
    data,               \* this.data
    originalDataCount,  \* this.originalDataCount
    duplicatesRemoved,  \* this.duplicatesRemoved
    results,            \* what the last validate() returned
    rebuilt,            \* the validator was constructed from retained rows
    vfArgs, vfRes,      \* last validateFabric call: arguments, result
    fvArgs, fvRes,      \* last getFinalValidation call: arguments, result
    validateCalls,      \* validate() calls on the current validator
    summary,            \* <<what the last getSummary returned>>, or <<>>
    dupInfo,            \* <<what the last getDuplicateInfo returned>>, or <<>>
    callerRows,         \* the caller's row array as it is now
    shared,             \* shared[j]: the index in callerRows of the object
                        \* that data[j] is, 0 when the array holds it no more
    activeTab,          \* TabNavigation state
    pending,            \* the handleFileUpload calls awaiting readExcelFile:
                        \* the file, the validators constructed when the
                        \* call began, and whether the HomePage that made
                        \* the call is still mounted
    isLoading,          \* HomePage state
    error,              \* HomePage state
    pageResults,        \* HomePage state results: <<>> for null
    pageSummary,        \* HomePage state summary: <<>> for null
    validationData,     \* TabNavigation state: <<>> for null
    summaryData,        \* TabNavigation state: <<>> for null
    rawFabricData,      \* TabNavigation state: <<>> for null
    built,              \* FabricValidator objects constructed by HomePage
    updates,            \* onDataUpdate calls
    started,            \* handleFileUpload calls
    latest,             \* <<the file of the last handleFileUpload call>>
    searchTerm,         \* ValidationResults state
    statusFilter,       \* ValidationResults state
    fabAFilter,         \* ValidationResults state
    fabBFilter,         \* ValidationResults state
    selectedRows,       \* ValidationResults state: a set of indices from 0
    ticked,             \* the hosts of the rows whose boxes the user ticked
                        \* and did not untick
    exported            \* <<the rows handed to exportToExcel last>>

vars == <<input, phase, data, originalDataCount, duplicatesRemoved, results,
          rebuilt, vfArgs, vfRes, fvArgs, fvRes, validateCalls, summary,
          dupInfo, callerRows, shared, activeTab, pending, isLoading, error,
          pageResults, pageSummary, validationData, summaryData,
          rawFabricData, built, updates, started, latest, searchTerm,
          statusFilter, fabAFilter, fabBFilter, selectedRows, ticked,
          exported>>

validatorVars == <<input, phase, data, originalDataCount, duplicatesRemoved,
                   results, rebuilt, validateCalls, summary, dupInfo,
                   callerRows, shared>>
ruleVars == <<vfArgs, vfRes, fvArgs, fvRes>>
callVars == <<summary, dupInfo>>
callerVars == <<callerRows, shared>>
pageVars == <<activeTab, pending, isLoading, error, pageResults, pageSummary,
              validationData, summaryData, rawFabricData, built, updates,
              started, latest, searchTerm, statusFilter, fabAFilter,
              fabBFilter, selectedRows, ticked, exported>>
filterVars == <<searchTerm, statusFilter, fabAFilter, fabBFilter>>
viewVars == <<filterVars, selectedRows, ticked, exported>>
uploadVars == <<activeTab, pending, isLoading, error, pageResults, pageSummary,
                validationData, summaryData, rawFabricData, built, updates,
                started, latest>>

---------------------------------------------------------------------------
(* Bounds of the model. *)

\* rows per input in the deduplication-key family
MaxKeyRows == 3
\* rows per input in the grouping family (two fabrics, three aliases)
MaxGroupRows == 3
\* rows per input in the single-host counting family
MaxCountRows == 4
\* rows per input in the malformed-field family
MaxBadRows == 2
\* rows per input in the login-text family
MaxLoginRows == 2
\* rows per input in the mixed family
MaxMixRows == 2
\* largest counter value handed to validateFabric directly
MaxCount == 9
\* validate() calls counted on one validator
MaxValidateCalls == 2
\* results handed to getSummary directly
MaxHosts == 40
\* rows of an input array its caller goes on changing
MaxAliasRows == 2
\* rows the caller's array grows to
MaxCallerRows == 3
\* data rows of an uploaded sheet
MaxFileRows == 2
\* handleFileUpload calls
MaxUploads == 2
\* rows per input in the alias-shape family
MaxHostRows == 2
\* data rows of an uploaded sheet with cells of every kind
MaxWideRows == 2
\* rows per input in the family of the results table
MaxViewRows == 3

---------------------------------------------------------------------------
(* JavaScript values. *)

Str(s) == [k |-> "string", v |-> s]
Num(s) == [k |-> "number", v |-> s]
Undefined == [k |-> "undefined", v |-> <<>>]

\* `${x}`: the string conversion a template literal applies
ToStr(x) ==
    IF x.k = "undefined"
    THEN <<"u", "n", "d", "e", "f", "i", "n", "e", "d">>
    ELSE x.v

FAB_A == <<"F", "A", "B", "-", "A">>
FAB_B == <<"F", "A", "B", "-", "B">>
FAB_C == <<"F", "A", "B", "-", "C">>
YES == <<"y", "e", "s">>

\* String.prototype.toLowerCase on the characters of the model
LowerChar(c) ==
    CASE c = "Y" -> "y"
      [] c = "E" -> "e"
      [] c = "S" -> "s"
      [] c = "A" -> "a"
      [] c = "B" -> "b"
      [] c = "C" -> "c"
      [] c = "F" -> "f"
      [] c = "N" -> "n"
      [] c = "O" -> "o"
      [] c = "G" -> "g"
      [] c = "M" -> "m"
      [] c = "P" -> "p"
      [] OTHER -> c

toLowerCase(s) == [i \in 1..Len(s) |-> LowerChar(s[i])]

---------------------------------------------------------------------------
(* Rows: the fields of FabricData the validator reads. *)

Row(f, a, w, l) == [Fabric |-> f, Alias |-> a, WWN |-> w, LoggedIn |-> l]

SeqsUpTo(U, n) == UNION {[1..k -> U] : k \in 0..n}

\* Deduplication-key family: fields that hold the key separator, an absent
\* member address, an empty one and the text "undefined".
KeyRows ==
    {Row(Str(FAB_A), a, w, l) :
        a \in {Str(<<"h">>), Str(<<"h", "|", "w">>)},
        w \in {Str(<<"x">>), Str(<<"w", "|", "x">>), Str(<<>>), Undefined,
               Str(<<"u", "n", "d", "e", "f", "i", "n", "e", "d">>)},
        l \in {Str(YES), Str(<<"n", "o">>)}}

\* Grouping family: three hosts, one with an upper-case name, a second port
\* of the first host, both fabrics.
GroupRows ==
    {Row(f, a, Str(<<"w">>), l) :
        f \in {Str(FAB_A), Str(FAB_B)},
        a \in {Str(<<"a", "_", "1">>), Str(<<"a", "_", "2">>),
               Str(<<"B", "_", "1">>), Str(<<"c", "_", "1">>)},
        l \in {Str(YES), Str(<<"n", "o">>)}}

\* Counting family: one host, four ports on FAB-A.
CountRows ==
    {Row(Str(FAB_A), Str(<<"a", "_", p>>), Str(<<"w", p>>), l) :
        p \in {"1", "2", "3", "4"},
        l \in {Str(YES), Str(<<"n", "o">>)}}

\* Malformed family: Alias or Logged In absent or a number.
BadRows ==
    {Row(Str(FAB_A), a, Str(<<"w">>), l) :
        a \in {Str(<<"a", "_", "1">>), Undefined, Num(<<"7">>)},
        l \in {Str(YES), Undefined, Num(<<"1">>)}}

\* Login-text family: spellings of the Logged In text.
LoginRows ==
    {Row(Str(FAB_A), a, Str(<<"w">>), Str(l)) :
        a \in {Str(<<"a", "_", "1">>), Str(<<"a", "_", "2">>)},
        l \in {YES, <<"Y", "e", "s">>, <<"Y", "E", "S">>, <<"n", "o">>,
               <<>>, <<" ", "y", "e", "s">>}}

\* Mixed family: an unrecognised fabric, an alias without underscore and one
\* with two, a WWN shared between aliases.
MixRows ==
    {Row(f, a, w, l) :
        f \in {Str(FAB_A), Str(FAB_C)},
        a \in {Str(<<"a">>), Str(<<"a", "_", "1">>),
               Str(<<"a", "_", "b", "_", "1">>)},
        w \in {Str(<<"w">>), Str(<<"x">>)},
        l \in {Str(YES), Str(<<"n", "o">>)}}

\* Scenario 1 of section 8: host srv1, four aliases per fabric, two logged in.
Srv1(p, f, l) ==
    Row(Str(f), Str(<<"s", "r", "v", "1", "_", p, "s">>),
        Str(<<"w", p, f[5]>>), Str(l))

Scenario1 ==
    <<Srv1("1", FAB_A, YES), Srv1("2", FAB_A, YES),
      Srv1("3", FAB_A, <<"n", "o">>), Srv1("4", FAB_A, <<"n", "o">>),
      Srv1("1", FAB_B, YES), Srv1("2", FAB_B, YES),
      Srv1("3", FAB_B, <<"n", "o">>), Srv1("4", FAB_B, <<"n", "o">>)>>

\* Caller family: the two fabrics of one host, logged in or not.
AliasRows ==
    {Row(f, Str(<<"a", "_", "1">>), Str(<<"w">>), l) :
        f \in {Str(FAB_A), Str(FAB_B)},
        l \in {Str(YES), Str(<<"n", "o">>)}}

\* the alias of the comment above extractHostName, and its host
ExampleAlias ==
    <<"M", "N", "0", "1", "_", "1", "-", "1", "-", "A", "_", "F", "E", "_",
      "F", "C", "0", "1", "_", "P", "G", "0", "1">>

ExampleHost == SubSeq(ExampleAlias, 1, 18)

\* Alias-shape family: no underscore, one, two, two in a row, one at the
\* end, one at the start, and the alias of the comment; both fabrics.
HostRows ==
    {Row(f, Str(a), Str(<<"w">>), Str(YES)) :
        f \in {Str(FAB_A), Str(FAB_B)},
        a \in {<<"a">>, <<"a", "_", "1">>, <<"a", "_", "b", "_", "1">>,
               <<"a", "_", "_", "1">>, <<"a", "_">>, <<"_", "1">>,
               ExampleAlias}}

\* Table family: a host on both fabrics and a host on one.
ViewRows ==
    {Row(Str(FAB_A), Str(<<"a", "_", "1">>), Str(<<"w">>), Str(YES)),
     Row(Str(FAB_B), Str(<<"a", "_", "1">>), Str(<<"w">>), Str(YES)),
     Row(Str(FAB_A), Str(<<"B", "_", "1">>), Str(<<"w">>), Str(YES))}

Inputs ==
    SeqsUpTo(KeyRows, MaxKeyRows)
    \cup SeqsUpTo(GroupRows, MaxGroupRows)
    \cup SeqsUpTo(CountRows, MaxCountRows)
    \cup SeqsUpTo(BadRows, MaxBadRows)
    \cup SeqsUpTo(LoginRows, MaxLoginRows)
    \cup SeqsUpTo(MixRows, MaxMixRows)
    \cup {Scenario1}

---------------------------------------------------------------------------
(* removeDuplicates *)

\* a key that also holds the Logged In text
KeyWithLoggedIn(entry) ==
    ToStr(entry.Fabric) \o <<"|">> \o ToStr(entry.Alias) \o <<"|">>
        \o ToStr(entry.WWN) \o <<"|">> \o ToStr(entry.LoggedIn)

\* the key of line 23: `${Fabric}|${Alias}|${Member WWN / D,P}`
Key(entry) ==
    ToStr(entry.Fabric) \o <<"|">> \o ToStr(entry.Alias) \o <<"|">>
        \o ToStr(entry.WWN)

\* the forEach with the seen set emptied whenever a row is dropped
RECURSIVE removeDuplicatesForgetting(_, _, _, _)
removeDuplicatesForgetting(rows, i, seen, uniqueData) ==
    IF i > Len(rows) THEN uniqueData
    ELSE
        LET key == Key(rows[i])
        IN  IF key \notin seen
            THEN removeDuplicatesForgetting(rows, i + 1, seen \cup {key},
                                            Append(uniqueData, rows[i]))
            ELSE removeDuplicatesForgetting(rows, i + 1, {}, uniqueData)

\* the forEach with a later row of a key seen put in the place of the row
\* kept for that key
RECURSIVE removeDuplicatesKeepingLast(_, _, _, _)
removeDuplicatesKeepingLast(rows, i, seen, uniqueData) ==
    IF i > Len(rows) THEN uniqueData
    ELSE
        LET key == Key(rows[i])
        IN  IF key \notin seen
            THEN removeDuplicatesKeepingLast(rows, i + 1, seen \cup {key},
                                             Append(uniqueData, rows[i]))
            ELSE removeDuplicatesKeepingLast(
                     rows, i + 1, seen,
                     [j \in 1..Len(uniqueData) |->
                         IF Key(uniqueData[j]) = key THEN rows[i]
                         ELSE uniqueData[j]])

\* the forEach of lines 21-29 from row i on, with the set of keys seen and
\* the rows kept so far
RECURSIVE removeDuplicatesFrom(_, _, _, _)
removeDuplicatesFrom(rows, i, seen, uniqueData) ==
    IF i > Len(rows) THEN uniqueData
    ELSE
        LET key == Key(rows[i])
        IN  IF key \notin seen
            THEN removeDuplicatesFrom(rows, i + 1, seen \cup {key},
                                      Append(uniqueData, rows[i]))
            ELSE removeDuplicatesFrom(rows, i + 1, seen, uniqueData)

removeDuplicates(rows) == removeDuplicatesFrom(rows, 1, {}, <<>>)

---------------------------------------------------------------------------
(* extractHostName, groupByHost *)

\* the position of the last underscore of s, 0 when it has none: where the
\* regular expression /_[^_]*$/ matches
LastUnderscore(s) ==
    IF \E i \in 1..Len(s) : s[i] = "_"
    THEN CHOOSE i \in 1..Len(s) :
            s[i] = "_" /\ \A j \in (i + 1)..Len(s) : s[j] # "_"
    ELSE 0

\* the replace with everything from the first underscore on removed
extractHostNameFromFirst(alias) ==
    IF \E i \in 1..Len(alias) : alias[i] = "_"
    THEN SubSeq(alias, 1,
                (CHOOSE i \in 1..Len(alias) :
                    alias[i] = "_" /\ \A j \in 1..(i - 1) : alias[j] # "_")
                - 1)
    ELSE alias

\* alias.replace(/_[^_]*$/, '')
extractHostName(alias) ==
    IF LastUnderscore(alias) = 0 THEN alias
    ELSE SubSeq(alias, 1, LastUnderscore(alias) - 1)

\* the comparison with 'yes' without toLowerCase
IsLoggedInSameCase(entry) == entry.LoggedIn.v = YES

\* entry['Logged In'].toLowerCase() === 'yes'
IsLoggedIn(entry) == toLowerCase(entry.LoggedIn.v) = YES

\* Line 49 calls replace on entry.Alias and line 50 toLowerCase on
\* entry['Logged In']: a TypeError when the value is not a string.
RowThrows(entry) ==
    \/ entry.Alias.k # "string"
    \/ entry.LoggedIn.k # "string"

\* hostMap is the Map in insertion order: a sequence of host aggregates
HostIndex(hostMap, hostName) ==
    IF \E i \in 1..Len(hostMap) : hostMap[i].hostName = hostName
    THEN CHOOSE i \in 1..Len(hostMap) : hostMap[i].hostName = hostName
    ELSE 0

NewHost(hostName) ==
    [hostName |-> hostName,
     fabA |-> [loggedIn |-> 0, notLoggedIn |-> 0],
     fabB |-> [loggedIn |-> 0, notLoggedIn |-> 0],
     wwns |-> <<>>]

\* the push with an entry sought by its wwn alone
AddWWNWhateverFabric(wwns, wwn, isLoggedIn, fabric) ==
    IF \E j \in 1..Len(wwns) : wwns[j].wwn = wwn
    THEN wwns
    ELSE Append(wwns, [wwn |-> wwn, isLoggedIn |-> isLoggedIn,
                       fabric |-> fabric])

\* lines 66-73: push the WWN unless one with the same wwn and fabric is there
AddWWN(wwns, wwn, isLoggedIn, fabric) ==
    IF \E j \in 1..Len(wwns) : wwns[j].wwn = wwn /\ wwns[j].fabric = fabric
    THEN wwns
    ELSE Append(wwns, [wwn |-> wwn, isLoggedIn |-> isLoggedIn,
                       fabric |-> fabric])

\* the counter update with a row that is not logged in counted under both
\* counters of its fabric
CountNotLoggedInTwice(hostData, fabric, isLoggedIn) ==
    IF fabric = Str(FAB_A)
    THEN IF isLoggedIn
         THEN [hostData EXCEPT !.fabA.loggedIn = @ + 1]
         ELSE [hostData EXCEPT !.fabA.loggedIn = @ + 1,
                               !.fabA.notLoggedIn = @ + 1]
    ELSE IF fabric = Str(FAB_B)
         THEN IF isLoggedIn
              THEN [hostData EXCEPT !.fabB.loggedIn = @ + 1]
              ELSE [hostData EXCEPT !.fabB.loggedIn = @ + 1,
                                    !.fabB.notLoggedIn = @ + 1]
         ELSE hostData

\* the counter update with every row not on FAB-A counted on FAB-B
CountElseFabB(hostData, fabric, isLoggedIn) ==
    IF fabric = Str(FAB_A)
    THEN IF isLoggedIn
         THEN [hostData EXCEPT !.fabA.loggedIn = @ + 1]
         ELSE [hostData EXCEPT !.fabA.notLoggedIn = @ + 1]
    ELSE IF isLoggedIn
         THEN [hostData EXCEPT !.fabB.loggedIn = @ + 1]
         ELSE [hostData EXCEPT !.fabB.notLoggedIn = @ + 1]

\* the counter update with a row of neither fabric counted on FAB-A
CountElseFabA(hostData, fabric, isLoggedIn) ==
    IF fabric = Str(FAB_B)
    THEN IF isLoggedIn
         THEN [hostData EXCEPT !.fabB.loggedIn = @ + 1]
         ELSE [hostData EXCEPT !.fabB.notLoggedIn = @ + 1]
    ELSE IF isLoggedIn
         THEN [hostData EXCEPT !.fabA.loggedIn = @ + 1]
         ELSE [hostData EXCEPT !.fabA.notLoggedIn = @ + 1]

\* lines 75-87: the counter of the row's fabric
Count(hostData, fabric, isLoggedIn) ==
    IF fabric = Str(FAB_A)
    THEN IF isLoggedIn
         THEN [hostData EXCEPT !.fabA.loggedIn = @ + 1]
         ELSE [hostData EXCEPT !.fabA.notLoggedIn = @ + 1]
    ELSE IF fabric = Str(FAB_B)
         THEN IF isLoggedIn
              THEN [hostData EXCEPT !.fabB.loggedIn = @ + 1]
              ELSE [hostData EXCEPT !.fabB.notLoggedIn = @ + 1]
         ELSE hostData

\* the body of the forEach with the Map keyed by the alias itself
GroupEntryByAlias(hostMap, entry) ==
    LET hostName == entry.Alias.v
        isLoggedIn == IsLoggedIn(entry)
        withHost == IF HostIndex(hostMap, hostName) = 0
                    THEN Append(hostMap, NewHost(hostName))
                    ELSE hostMap
        i == HostIndex(withHost, hostName)
        hostData == [withHost[i] EXCEPT
                        !.wwns = AddWWN(@, entry.WWN, isLoggedIn,
                                        entry.Fabric)]
    IN  [withHost EXCEPT ![i] = Count(hostData, entry.Fabric, isLoggedIn)]

\* the body of the forEach of lines 48-88 for one row
GroupEntry(hostMap, entry) ==
    LET hostName == extractHostName(entry.Alias.v)
        isLoggedIn == IsLoggedIn(entry)
        fabric == entry.Fabric
        wwn == entry.WWN
        withHost == IF HostIndex(hostMap, hostName) = 0
                    THEN Append(hostMap, NewHost(hostName))
                    ELSE hostMap
        i == HostIndex(withHost, hostName)
        hostData == [withHost[i] EXCEPT
                        !.wwns = AddWWN(@, wwn, isLoggedIn, fabric)]
    IN  [withHost EXCEPT ![i] = Count(hostData, fabric, isLoggedIn)]

RECURSIVE groupByHostFrom(_, _, _)
groupByHostFrom(rows, i, hostMap) ==
    IF i > Len(rows) THEN hostMap
    ELSE groupByHostFrom(rows, i + 1, GroupEntry(hostMap, rows[i]))

groupByHost(rows) == groupByHostFrom(rows, 1, <<>>)

---------------------------------------------------------------------------
(* validateFabric, getFinalValidation *)

\* validateFabric with a fabric that has no rows passed as OK
validateFabricAbsentOK(loggedIn, notLoggedIn) ==
    IF \/ (loggedIn = 2 /\ notLoggedIn = 2)
       \/ (loggedIn = 1 /\ notLoggedIn = 0)
       \/ (loggedIn = 0 /\ notLoggedIn = 0)
    THEN "OK"
    ELSE "Error"

\* validateFabric with the second shape read as "1 logged in", whatever the
\* number not logged in
validateFabricAnyNotLoggedIn(loggedIn, notLoggedIn) ==
    IF (loggedIn = 2 /\ notLoggedIn = 2) \/ loggedIn = 1
    THEN "OK"
    ELSE "Error"

validateFabric(loggedIn, notLoggedIn) ==
    IF (loggedIn = 2 /\ notLoggedIn = 2) \/ (loggedIn = 1 /\ notLoggedIn = 0)
    THEN "OK"
    ELSE "Error"

\* getFinalValidation with the two single-fabric verdicts exchanged
getFinalValidationSwapped(validationA, validationB) ==
    IF validationA = "OK" /\ validationB = "OK" THEN "Good"
    ELSE IF validationA = "Error" /\ validationB = "Error"
         THEN "Both FABs Are BAD"
         ELSE IF validationA = "Error" THEN "FAB-B Is BAD"
              ELSE "FAB-A Is BAD"

getFinalValidation(validationA, validationB) ==
    IF validationA = "OK" /\ validationB = "OK" THEN "Good"
    ELSE IF validationA = "Error" /\ validationB = "Error"
         THEN "Both FABs Are BAD"
         ELSE IF validationA = "Error" THEN "FAB-A Is BAD"
              ELSE "FAB-B Is BAD"

---------------------------------------------------------------------------
(* localeCompare and the sort of validate *)

\* The root collation order of the characters of the model: white space,
\* punctuation, symbols, digits, letters; a letter's case is a third-level
\* difference, lower case first.
CollationOrder ==
    <<" ", "_", "-", "|", "0", "1", "2", "3", "4", "7", "a", "b", "c", "d",
      "e", "f", "g", "h", "i", "m", "n", "o", "p", "r", "s", "u", "v", "w",
      "x", "y">>

Primary(c) ==
    CHOOSE i \in 1..Len(CollationOrder) : CollationOrder[i] = LowerChar(c)

Tertiary(c) == IF LowerChar(c) # c THEN 1 ELSE 0

\* lexicographic comparison of two sequences of integers: -1, 0 or 1
RECURSIVE CompareFrom(_, _, _)
CompareFrom(x, y, i) ==
    IF i > Len(x) /\ i > Len(y) THEN 0
    ELSE IF i > Len(x) THEN -1
    ELSE IF i > Len(y) THEN 1
    ELSE IF x[i] < y[i] THEN -1
    ELSE IF x[i] > y[i] THEN 1
    ELSE CompareFrom(x, y, i + 1)

\* a.localeCompare(b): the first-level weights decide, then the case
localeCompare(a, b) ==
    LET p == CompareFrom([i \in 1..Len(a) |-> Primary(a[i])],
                         [i \in 1..Len(b) |-> Primary(b[i])], 1)
    IN  IF p # 0 THEN p
        ELSE CompareFrom([i \in 1..Len(a) |-> Tertiary(a[i])],
                         [i \in 1..Len(b) |-> Tertiary(b[i])], 1)

\* the UTF-16 code unit of a character of the model
CodeUnit(c) ==
    CASE c = " " -> 32  [] c = "-" -> 45  [] c = "0" -> 48
      [] c = "1" -> 49  [] c = "2" -> 50  [] c = "3" -> 51  [] c = "4" -> 52
      [] c = "7" -> 55
      [] c = "A" -> 65  [] c = "B" -> 66  [] c = "C" -> 67  [] c = "E" -> 69
      [] c = "F" -> 70  [] c = "N" -> 78  [] c = "O" -> 79  [] c = "S" -> 83
      [] c = "Y" -> 89  [] c = "_" -> 95
      [] c = "a" -> 97  [] c = "b" -> 98  [] c = "c" -> 99  [] c = "d" -> 100
      [] c = "e" -> 101 [] c = "f" -> 102 [] c = "h" -> 104 [] c = "i" -> 105
      [] c = "n" -> 110 [] c = "o" -> 111 [] c = "r" -> 114 [] c = "s" -> 115
      [] c = "u" -> 117 [] c = "v" -> 118 [] c = "w" -> 119 [] c = "x" -> 120
      [] c = "y" -> 121 [] c = "|" -> 124
      [] c = "G" -> 71  [] c = "M" -> 77  [] c = "P" -> 80
      [] c = "g" -> 103 [] c = "m" -> 109 [] c = "p" -> 112

\* the comparison of the operators < and > on strings: by code units
CodeUnitCompare(a, b) ==
    CompareFrom([i \in 1..Len(a) |-> CodeUnit(a[i])],
                [i \in 1..Len(b) |-> CodeUnit(b[i])], 1)

\* a comparator on the code units of the host names
CompareHostsByCodeUnit(a, b) == CodeUnitCompare(a.host, b.host)

\* the comparator of line 150
CompareHosts(a, b) == localeCompare(a.host, b.host)

\* Array.prototype.sort is stable: x goes after the elements not above it
InsertSorted(sorted, x) ==
    LET n == Cardinality({j \in 1..Len(sorted) :
                            CompareHosts(sorted[j], x) <= 0})
    IN  SubSeq(sorted, 1, n) \o <<x>> \o SubSeq(sorted, n + 1, Len(sorted))

RECURSIVE SortFrom(_, _, _)
SortFrom(unsorted, i, sorted) ==
    IF i > Len(unsorted) THEN sorted
    ELSE SortFrom(unsorted, i + 1, InsertSorted(sorted, unsorted[i]))

sortResults(unsorted) == SortFrom(unsorted, 1, <<>>)

---------------------------------------------------------------------------
(* validate *)

\* lines 132-146: the result pushed for one host aggregate
ResultOf(hostData) ==
    LET validationA ==
            validateFabric(hostData.fabA.loggedIn, hostData.fabA.notLoggedIn)
        validationB ==
            validateFabric(hostData.fabB.loggedIn, hostData.fabB.notLoggedIn)
    IN  [host |-> hostData.hostName,
         wwns |-> hostData.wwns,
         fabA_LoggedInYes |-> hostData.fabA.loggedIn,
         fabA_LoggedInNo |-> hostData.fabA.notLoggedIn,
         validationA |-> validationA,
         fabB_LoggedInYes |-> hostData.fabB.loggedIn,
         fabB_LoggedInNo |-> hostData.fabB.notLoggedIn,
         validationB |-> validationB,
         finalValidation |-> getFinalValidation(validationA, validationB)]

\* validate() on rows none of which throws
validate(rows) ==
    LET hostMap == groupByHost(rows)
    IN  sortResults([i \in 1..Len(hostMap) |-> ResultOf(hostMap[i])])

\* validate() ends in a TypeError
validateThrows(rows) == \E i \in 1..Len(rows) : RowThrows(rows[i])

\* the message of the TypeError of a row that throws: line 41 is reached
\* from line 49 before line 50 is
ThrownBy(entry) ==
    IF entry.Alias = Undefined
    THEN "Cannot read properties of undefined (reading 'replace')"
    ELSE IF entry.Alias.k # "string"
    THEN "alias.replace is not a function"
    ELSE IF entry.LoggedIn = Undefined
    THEN "Cannot read properties of undefined (reading 'toLowerCase')"
    ELSE "entry.Logged In.toLowerCase is not a function"

\* the message of the TypeError validate() ends in: that of the first row
\* that throws
validateMessage(rows) ==
    ThrownBy(rows[CHOOSE i \in 1..Len(rows) :
                     /\ RowThrows(rows[i])
                     /\ \A j \in 1..(i - 1) : ~RowThrows(rows[j])])

---------------------------------------------------------------------------
(* ConnectionMatrix.matrixData: the figures of one cell of the matrix. *)

\* result.wwns.filter(w => w.fabric === fabric)
fabricWwns(result, fabric) ==
    SelectSeq(result.wwns, LAMBDA w : w.fabric = fabric)

\* fabricWwns.filter(w => w.isLoggedIn).length
loggedInCount(result, fabric) ==
    Len(SelectSeq(fabricWwns(result, fabric), LAMBDA w : w.isLoggedIn))

\* fabricWwns.length
totalCount(result, fabric) == Len(fabricWwns(result, fabric))

---------------------------------------------------------------------------
(* Number arithmetic of line 169: (good / total) * 100 on IEEE 754 doubles, *)
(* then Math.round.  A positive double is [m, e]: m its significand as a   *)
(* leading number followed by Digits digits of DigitBits bits each, and e  *)
(* the power of two of the last bit.  A significand holds 53 bits: the     *)
(* leading one and Digits * DigitBits = 52 more.                           *)

DigitBits == 13

Digits == 4

Base == 2 ^ DigitBits

\* the number of bits of n > 0
BitLength(n) == CHOOSE len \in 1..31 : 2 ^ (len - 1) <= n /\ n < 2 ^ len

\* long division: the next n digits of r / d for r < d, and what remains
RECURSIVE DivDigits(_, _, _)
DivDigits(r, d, n) ==
    IF n = 0 THEN [digits |-> <<>>, rem |-> r]
    ELSE LET rest == DivDigits((r * Base) % d, d, n - 1)
         IN  [digits |-> <<(r * Base) \div d>> \o rest.digits,
              rem |-> rest.rem]

\* a significand plus unit in its last digit, for unit below Base
RECURSIVE AddToLast(_, _)
AddToLast(m, unit) ==
    LET n == Len(m)
    IN  IF n = 1 THEN <<m[1] + unit>>
        ELSE IF m[n] + unit < Base
             THEN SubSeq(m, 1, n - 1) \o <<m[n] + unit>>
             ELSE AddToLast(SubSeq(m, 1, n - 1), 1)
                      \o <<m[n] + unit - Base>>

\* a significand times k plus carry, for k below Base
RECURSIVE TimesSmall(_, _, _)
TimesSmall(m, k, carry) ==
    LET n == Len(m)
    IN  IF n = 1 THEN <<m[1] * k + carry>>
        ELSE TimesSmall(SubSeq(m, 1, n - 1), k, (m[n] * k + carry) \div Base)
                 \o <<(m[n] * k + carry) % Base>>

\* the least k with a * 2^k >= d, for 0 < a
RECURSIVE ShiftUp(_, _, _)
ShiftUp(a, d, k) == IF a >= d THEN k ELSE ShiftUp(2 * a, d, k + 1)

\* a / d for integers 0 < a <= d, as a double: the quotient rounded to
\* nearest, a tie going to the even significand
Divide(a, d) ==
    LET up == ShiftUp(a, d, 0)
        \* a * 2^up / d lies in [1, 2)
        q == DivDigits(a * (2 ^ up) - d, d, Digits)
        m == <<1>> \o q.digits
        above == 2 * q.rem > d
        tie == 2 * q.rem = d
    IN  [m |-> IF above \/ (tie /\ m[Len(m)] % 2 = 1)
               THEN AddToLast(m, 1) ELSE m,
         e |-> -up - Digits * DigitBits]

\* x * 100 for a double x: the product rounded to 53 bits, a tie going to
\* the even significand
TimesHundred(x) ==
    LET p == TimesSmall(x.m, 100, 0)
        n == Len(p)
        \* the product has drop bits more than a significand holds
        drop == BitLength(p[1]) - 1
        unit == 2 ^ drop
        low == p[n] % unit
        kept == [p EXCEPT ![n] = p[n] - low]
        above == 2 * low > unit
        tie == drop > 0 /\ 2 * low = unit
    IN  [m |-> IF above \/ (tie /\ (p[n] \div unit) % 2 = 1)
               THEN AddToLast(kept, unit) ELSE kept,
         e |-> x.e]

\* Math.round(x) for a double x below its leading number plus one: the
\* nearest integer, a half going up
MathRound(x) ==
    LET shift == -x.e - Digits * DigitBits
        half == IF shift > 0 THEN (x.m[1] \div (2 ^ (shift - 1))) % 2
                ELSE x.m[2] \div (2 ^ (DigitBits - 1))
    IN  (x.m[1] \div (2 ^ shift)) + half

\* percentageGood with 100 reported when there is no result
percentageGoodElseHundred(good, total) ==
    IF total > 0
    THEN IF good = 0 THEN 0
         ELSE CHOOSE r \in {MathRound(p) :
                              p \in {TimesHundred(q) :
                                       q \in {Divide(good, total)}}} : TRUE
    ELSE 100

\* total > 0 ? Math.round((good / total) * 100) : 0
percentageGood(good, total) ==
    IF total > 0
    THEN IF good = 0 THEN 0
         ELSE \* each operation acts on the value of the one before it
              CHOOSE r \in {MathRound(p) :
                              p \in {TimesHundred(q) :
                                       q \in {Divide(good, total)}}} : TRUE
    ELSE 0

---------------------------------------------------------------------------
(* getSummary, getDuplicateInfo *)

CountFinal(res, verdict) ==
    Cardinality({i \in 1..Len(res) : res[i].finalValidation = verdict})

\* getSummary with the last filter comparing against a misspelt verdict
getSummaryMisspelt(res, original, removed, unique) ==
    [total |-> Len(res),
     good |-> CountFinal(res, "Good"),
     fabABad |-> CountFinal(res, "FAB-A Is BAD"),
     fabBBad |-> CountFinal(res, "FAB-B Is BAD"),
     bothBad |-> CountFinal(res, "Both FABs are BAD"),
     percentageGood |-> percentageGood(CountFinal(res, "Good"), Len(res)),
     originalEntries |-> original,
     duplicatesRemoved |-> removed,
     uniqueEntries |-> unique]

\* getSummary(res) of a validator with the fields given
getSummary(res, original, removed, unique) ==
    [total |-> Len(res),
     good |-> CountFinal(res, "Good"),
     fabABad |-> CountFinal(res, "FAB-A Is BAD"),
     fabBBad |-> CountFinal(res, "FAB-B Is BAD"),
     bothBad |-> CountFinal(res, "Both FABs Are BAD"),
     percentageGood |-> percentageGood(CountFinal(res, "Good"), Len(res)),
     originalEntries |-> original,
     duplicatesRemoved |-> removed,
     uniqueEntries |-> unique]

getDuplicateInfo(original, removed, unique) ==
    [originalEntries |-> original,
     duplicatesRemoved |-> removed,
     uniqueEntries |-> unique]

---------------------------------------------------------------------------
(* The validator as a state machine. *)

\* no validator yet, no call made; the caller holds the rows given
NothingYet(given) ==
    /\ input = given
    /\ callerRows = given
    /\ shared = <<>>
    /\ phase = "new"
    /\ data = <<>>
    /\ originalDataCount = 0
    /\ duplicatesRemoved = 0
    /\ results = <<>>
    /\ rebuilt = FALSE
    /\ validateCalls = 0
    /\ summary = <<>>
    /\ dupInfo = <<>>
    /\ vfArgs = <<0, 0>>
    /\ vfRes = "none"
    /\ fvArgs = <<"OK", "OK">>
    /\ fvRes = "none"
    /\ activeTab = "validation"
    /\ pending = <<>>
    /\ isLoading = FALSE
    /\ error = ""
    /\ pageResults = <<>>
    /\ pageSummary = <<>>
    /\ validationData = <<>>
    /\ summaryData = <<>>
    /\ rawFabricData = <<>>
    /\ built = 0
    /\ updates = 0
    /\ started = 0
    /\ latest = <<>>
    /\ searchTerm = <<>>
    /\ statusFilter = "all"
    /\ fabAFilter = "all"
    /\ fabBFilter = "all"
    /\ selectedRows = {}
    /\ ticked = {}
    /\ exported = <<>>

Init == \E given \in Inputs : NothingYet(given)

\* uniqueData.push(entry) of line 27 keeps the row object itself: for each
\* kept row, the index in the array given of the object it is (the first
\* row with its key)
KeptFrom(given, kept) ==
    [j \in 1..Len(kept) |->
        CHOOSE i \in 1..Len(given) :
            /\ Key(given[i]) = Key(kept[j])
            /\ \A h \in 1..(i - 1) : Key(given[h]) # Key(kept[j])]

\* the constructor with duplicatesRemoved computed before this.data is set
ConstructorCountingEarly(given) ==
    /\ originalDataCount' = Len(given)
    /\ data' = removeDuplicates(given)
    /\ duplicatesRemoved' = Len(given) - Len(data)
    /\ phase' = "constructed"
    /\ results' = <<>>
    /\ validateCalls' = 0
    /\ summary' = <<>>
    /\ dupInfo' = <<>>

\* the constructor of lines 8-12 on the rows given
Constructor(given) ==
    /\ originalDataCount' = Len(given)
    /\ data' = removeDuplicates(given)
    /\ duplicatesRemoved' = Len(given) - Len(removeDuplicates(given))
    /\ phase' = "constructed"
    /\ results' = <<>>
    /\ validateCalls' = 0
    /\ summary' = <<>>
    /\ dupInfo' = <<>>

\* new FabricValidator(input)
Construct ==
    /\ phase = "new"
    /\ Constructor(input)
    /\ shared' = KeptFrom(input, removeDuplicates(input))
    /\ UNCHANGED <<input, callerRows, rebuilt, ruleVars,
                   pageVars>>

\* new FabricValidator(rows) on the rows a first validator retained; input
\* stays the array the first one was given
ConstructFromRetained ==
    /\ phase \in {"constructed", "validated"}
    /\ ~rebuilt
    /\ Constructor(data)
    /\ shared' = [j \in 1..Len(removeDuplicates(data)) |->
                    shared[KeptFrom(data, removeDuplicates(data))[j]]]
    /\ rebuilt' = TRUE
    /\ UNCHANGED <<input, callerRows, ruleVars,
                   pageVars>>

\* validate() taking the rows out of this.data as it reads them
ValidateDraining(limit) ==
    /\ phase \in {"constructed", "validated"}
    /\ validateCalls < limit
    /\ validateCalls' = validateCalls + 1
    /\ IF validateThrows(data)
       THEN phase' = "failed" /\ UNCHANGED results
       ELSE phase' = "validated" /\ results' = validate(data)
    /\ data' = <<>>
    /\ UNCHANGED <<input, originalDataCount, duplicatesRemoved,
                   rebuilt, ruleVars, callVars, callerVars,
                   pageVars>>

\* validator.validate(), for a validator on which it was called fewer than
\* limit times: returns the results, or throws
ValidateCall(limit) ==
    /\ phase \in {"constructed", "validated"}
    /\ validateCalls < limit
    /\ validateCalls' = validateCalls + 1
    /\ IF validateThrows(data)
       THEN phase' = "failed" /\ UNCHANGED results
       ELSE phase' = "validated" /\ results' = validate(data)
    /\ UNCHANGED <<input, data, originalDataCount, duplicatesRemoved,
                   rebuilt, ruleVars, callVars, callerVars,
                   pageVars>>

\* validate() called once on a validator
Validate == ValidateCall(1)

\* validate() called again and again
ValidateRepeatedly == ValidateCall(MaxValidateCalls)

\* validator.getSummary(results) on what validate() returned, as
\* HomePage.handleFileUpload calls it
GetSummary ==
    /\ phase = "validated"
    /\ summary' = <<getSummary(results, originalDataCount, duplicatesRemoved,
                               Len(data))>>
    /\ UNCHANGED <<input, phase, data, originalDataCount, duplicatesRemoved,
                   results, rebuilt, validateCalls, dupInfo, callerVars,
                   ruleVars,
                   pageVars>>

\* validator.getDuplicateInfo()
GetDuplicateInfo ==
    /\ phase # "new"
    /\ dupInfo' = <<getDuplicateInfo(originalDataCount, duplicatesRemoved,
                                     Len(data))>>
    /\ UNCHANGED <<input, phase, data, originalDataCount, duplicatesRemoved,
                   results, rebuilt, validateCalls, summary, callerVars,
                   ruleVars,
                   pageVars>>

Next == Construct \/ ConstructFromRetained \/ Validate

Spec == Init /\ [][Next]_vars

---------------------------------------------------------------------------
(* The validator on rows of the two fabrics, of an unrecognised one and *)
(* with the spellings of the login text.                                *)

InitFabrics ==
    \E given \in SeqsUpTo(GroupRows, MaxGroupRows)
                    \cup SeqsUpTo(LoginRows, MaxLoginRows)
                    \cup SeqsUpTo(MixRows, MaxMixRows) : NothingYet(given)

SpecFabrics == InitFabrics /\ [][Next]_vars

---------------------------------------------------------------------------
(* The validator on aliases of every shape. *)

InitHost == \E given \in SeqsUpTo(HostRows, MaxHostRows) : NothingYet(given)

SpecHost == InitHost /\ [][Next]_vars

---------------------------------------------------------------------------
(* The validator with validate() called more than once. *)

NextRepeat == Construct \/ ValidateRepeatedly

SpecRepeat == InitFabrics /\ [][NextRepeat]_vars

---------------------------------------------------------------------------
(* The validator with its two reporting methods. *)

NextSummary == Construct \/ Validate \/ GetSummary \/ GetDuplicateInfo

SpecSummary == InitFabrics /\ [][NextSummary]_vars

---------------------------------------------------------------------------
(* getSummary called on result lists of every size up to MaxHosts. *)

BadVerdicts == <<"FAB-A Is BAD", "FAB-B Is BAD", "Both FABs Are BAD">>

\* total results of which the first good are Good
ResultsWith(good, total) ==
    [i \in 1..total |->
        [ResultOf(NewHost(<<"h">>)) EXCEPT
            !.finalValidation =
                IF i <= good THEN "Good" ELSE BadVerdicts[(i % 3) + 1]]]

CallGetSummary ==
    \E total \in 0..MaxHosts :
        \E good \in 0..total :
            /\ phase = "constructed"
            /\ summary = <<>>
            /\ summary' = <<getSummary(ResultsWith(good, total),
                                       originalDataCount, duplicatesRemoved,
                                       Len(data))>>
            /\ UNCHANGED <<input, phase, data, originalDataCount,
                           duplicatesRemoved, results, rebuilt,
                           validateCalls, dupInfo, callerVars, ruleVars,
                   pageVars>>

NextRound == Construct \/ CallGetSummary

InitRound == NothingYet(<<>>)

SpecRound == InitRound /\ [][NextRound]_vars

---------------------------------------------------------------------------
(* The validator and a caller that keeps its input array and goes on  *)
(* changing it after construction.  callerRows is that array now, input *)
(* what it held at construction, and shared[j] the place in callerRows  *)
(* of the row object that this.data[j] is (0 once the caller removed    *)
(* it): removeDuplicates pushes the entries of data themselves.         *)

InitAlias == \E given \in SeqsUpTo(AliasRows, MaxAliasRows) : NothingYet(given)

\* rows.push(row)
CallerPush ==
    \E row \in AliasRows :
        /\ phase # "new"
        /\ Len(callerRows) < MaxCallerRows
        /\ callerRows' = Append(callerRows, row)
        /\ UNCHANGED <<input, phase, data, originalDataCount,
                       duplicatesRemoved, results, rebuilt, validateCalls,
                       ruleVars, callVars, shared,
                   pageVars>>

\* rows.pop()
CallerPop ==
    /\ phase # "new"
    /\ Len(callerRows) > 0
    /\ callerRows' = SubSeq(callerRows, 1, Len(callerRows) - 1)
    /\ shared' = [j \in 1..Len(shared) |->
                     IF shared[j] = Len(callerRows) THEN 0 ELSE shared[j]]
    /\ UNCHANGED <<input, phase, data, originalDataCount, duplicatesRemoved,
                   results, rebuilt, validateCalls, ruleVars, callVars,
                   pageVars>>

\* rows[i]['Logged In'] = text
CallerSetLoggedIn ==
    \E i \in 1..Len(callerRows) :
        \E text \in {Str(YES), Str(<<"n", "o">>)} :
            /\ phase # "new"
            /\ callerRows[i].LoggedIn # text
            /\ callerRows' = [callerRows EXCEPT ![i].LoggedIn = text]
            /\ data' = [j \in 1..Len(data) |->
                          IF shared[j] = i
                          THEN [data[j] EXCEPT !.LoggedIn = text]
                          ELSE data[j]]
            /\ UNCHANGED <<input, phase, originalDataCount,
                           duplicatesRemoved, results, rebuilt,
                           validateCalls, ruleVars, callVars, shared,
                   pageVars>>

NextAlias ==
    \/ Construct
    \/ Validate
    \/ GetSummary
    \/ CallerPush
    \/ CallerPop
    \/ CallerSetLoggedIn

SpecAlias == InitAlias /\ [][NextAlias]_vars

---------------------------------------------------------------------------
(* HomePage.handleFileUpload with ExcelUtils.readExcelFile and          *)
(* ExcelUtils.validateExcelStructure.  A file is the header row of its  *)
(* first sheet, as the set of the columns it names, and the data rows   *)
(* under it; a data row holds a cell for every column.  A file is       *)
(* readable when the FileReader loads it, and not when it reports an    *)
(* error instead.                                                       *)

AllColumns == {"Fabric", "Alias", "WWN", "LoggedIn"}

HeaderRows == {AllColumns, AllColumns \ {"LoggedIn"}}

SheetRows ==
    {Row(f, Str(<<"a", "_", "1">>), Str(<<"w">>), Str(YES)) :
        f \in {Str(FAB_A), Str(FAB_C)}}

\* the files of one row with every column that the FileReader fails on
Unreadable(rowSet) ==
    {[headers |-> AllColumns, rows |-> <<r>>, readable |-> FALSE] :
        r \in rowSet}

Files ==
    {[headers |-> h, rows |-> r, readable |-> TRUE] :
        h \in HeaderRows, r \in SeqsUpTo(SheetRows, MaxFileRows)}
    \cup Unreadable(SheetRows)

\* Sheets with cells of every kind: the two fabrics, an unrecognised one and
\* an empty Fabric cell; two hosts, an empty Alias cell and a numeric one.
WideSheetRows ==
    {Row(f, a, Str(<<"w">>), l) :
        f \in {Str(FAB_A), Str(FAB_B), Str(FAB_C), Str(<<>>)},
        a \in {Str(<<"a", "_", "1">>), Str(<<"B", "_", "1">>), Str(<<>>),
               Num(<<"7">>)},
        l \in {Str(YES), Str(<<"n", "o">>)}}

WideFiles ==
    {[headers |-> h, rows |-> r, readable |-> TRUE] :
        h \in HeaderRows, r \in SeqsUpTo(WideSheetRows, MaxWideRows)}
    \cup Unreadable(WideSheetRows)

\* Sheets of the rows of the results table
ViewFiles ==
    {[headers |-> AllColumns, rows |-> r, readable |-> TRUE] :
        r \in SeqsUpTo(ViewRows, MaxViewRows)}

\* JavaScript truthiness of a field value
Truthy(x) ==
    \/ x.k = "string" /\ x.v # <<>>
    \/ x.k = "number" /\ x.v # <<"0">>

\* obj[header] = row[index] || '', for the headers the sheet has
Cell(file, row, column) ==
    IF column \in file.headers
    THEN (IF Truthy(row[column]) THEN row[column] ELSE Str(<<>>))
    ELSE Undefined

\* .filter(item => item.Fabric && item.Alias)
NotEmptyRow(item) == Truthy(item.Fabric) /\ Truthy(item.Alias)

\* jsonData.length < 2
TooShort(file) == 1 + Len(file.rows) < 2

\* readExcelFile without the filter of line 37
readExcelFileUnfiltered(file) ==
    [i \in 1..Len(file.rows) |->
        Row(Cell(file, file.rows[i], "Fabric"),
            Cell(file, file.rows[i], "Alias"),
            Cell(file, file.rows[i], "WWN"),
            Cell(file, file.rows[i], "LoggedIn"))]

\* what readExcelFile resolves with, for a file it does not reject
readExcelFile(file) ==
    SelectSeq([i \in 1..Len(file.rows) |->
                  Row(Cell(file, file.rows[i], "Fabric"),
                      Cell(file, file.rows[i], "Alias"),
                      Cell(file, file.rows[i], "WWN"),
                      Cell(file, file.rows[i], "LoggedIn"))],
              NotEmptyRow)

\* a JavaScript string as one text
RECURSIVE Text(_)
Text(chars) == IF chars = <<>> THEN "" ELSE chars[1] \o Text(Tail(chars))

\* texts.join(separator)
RECURSIVE Join(_, _)
Join(texts, separator) ==
    IF Len(texts) = 0 THEN ""
    ELSE IF Len(texts) = 1 THEN texts[1]
    ELSE texts[1] \o separator \o Join(Tail(texts), separator)

\* !sampleRow.hasOwnProperty(column)
Missing(sampleRow, column, name) ==
    IF sampleRow[column] = Undefined
    THEN <<"Missing required column: " \o name>>
    ELSE <<>>

ValidFabric(fabric) == fabric \in {Str(FAB_A), Str(FAB_B)}

\* the Fabric values that are truthy and not valid, each once, in the order
\* of their first rows
RECURSIVE InvalidFabricsFrom(_, _, _)
InvalidFabricsFrom(rows, i, found) ==
    IF i > Len(rows) THEN found
    ELSE IF /\ Truthy(rows[i].Fabric)
            /\ ~ValidFabric(rows[i].Fabric)
            /\ \A j \in 1..Len(found) : found[j] # rows[i].Fabric
         THEN InvalidFabricsFrom(rows, i + 1, Append(found, rows[i].Fabric))
         ELSE InvalidFabricsFrom(rows, i + 1, found)

InvalidFabricsMessage(invalidFabrics) ==
    IF Len(invalidFabrics) > 0
    THEN <<"Invalid fabric values found: "
            \o Join([j \in 1..Len(invalidFabrics) |->
                        Text(ToStr(invalidFabrics[j]))], ", ")
            \o ". Expected: FAB-A, FAB-B">>
    ELSE <<>>

\* the errors of validateExcelStructure(rows); isValid is "no errors"
validateExcelStructure(rows) ==
    IF Len(rows) = 0 THEN <<"Excel file is empty or invalid">>
    ELSE Missing(rows[1], "Fabric", "Fabric")
         \o Missing(rows[1], "Alias", "Alias")
         \o Missing(rows[1], "LoggedIn", "Logged In")
         \o InvalidFabricsMessage(InvalidFabricsFrom(rows, 1, <<>>))

Remove(seq, i) == SubSeq(seq, 1, i - 1) \o SubSeq(seq, i + 1, Len(seq))

\* the tabs of TabNavigation that are told apart: HomePage is rendered on
\* 'validation' and on no other
Tabs == {"validation", "matrix"}

\* ValidationResults as it mounts (part_004 lines 21-26); its state is
\* held like this while it is not mounted
ValidationResultsMounts ==
    /\ searchTerm' = <<>>
    /\ statusFilter' = "all"
    /\ fabAFilter' = "all"
    /\ fabBFilter' = "all"
    /\ selectedRows' = {}
    /\ ticked' = {}

\* HomePage renders ValidationResults while results is not null (lines
\* 85-97): the state of ValidationResults is kept while it stays mounted
\* and discarded when it unmounts
ValidationResultsAfter ==
    IF pageResults' = <<>>
    THEN ValidationResultsMounts
    ELSE UNCHANGED <<filterVars, selectedRows, ticked>>

\* handleFileUpload up to its await (lines 34-41); FileUpload is rendered
\* while results is null.  began is the number of validators constructed so
\* far.  The file is one of files, and fewer than limit calls were made.
HandleFileUploadOf(files, limit) ==
    /\ started < limit
    /\ activeTab = "validation"
    /\ pageResults = <<>>
    /\ \E file \in files :
        /\ started' = started + 1
        /\ latest' = <<file>>
        /\ isLoading' = TRUE
        /\ error' = ""
        /\ pageResults' = <<>>
        /\ pageSummary' = <<>>
        /\ pending' = Append(pending, [file |-> file, began |-> built,
                                       mounted |-> TRUE])
        /\ UNCHANGED <<validatorVars, ruleVars, activeTab, validationData,
                       summaryData, rawFabricData, built, updates, viewVars>>

HandleFileUpload == HandleFileUploadOf(Files, MaxUploads)

\* the catch and finally blocks (lines 61-65) with nothing else done; the
\* setters of a HomePage that is unmounted set nothing
Caught(mounted, message) ==
    /\ IF mounted
       THEN /\ error' = message
            /\ isLoading' = FALSE
       ELSE UNCHANGED <<error, isLoading>>
    /\ UNCHANGED <<pageResults, pageSummary, validationData, summaryData,
                   rawFabricData, updates>>

\* TabNavigation.handleDataUpdate with the raw rows left as they are
handleDataUpdateKeepingRaw(newResults, newSummary, fabricData) ==
    /\ validationData' = <<newResults>>
    /\ summaryData' = <<newSummary>>
    /\ rawFabricData' = rawFabricData

\* TabNavigation.handleDataUpdate; an array is truthy, so the raw rows are
\* set whenever HomePage calls it
handleDataUpdate(newResults, newSummary, fabricData) ==
    /\ validationData' = <<newResults>>
    /\ summaryData' = <<newSummary>>
    /\ rawFabricData' = <<fabricData>>

\* handleFileUpload from the end of its await (lines 41-65), with
\* reader.onerror of readExcelFile (part_005 line 45) and, for the call of
\* a HomePage that is unmounted, the effect of lines 28-31 in the HomePage
\* that is mounted now
FileRead ==
    \E i \in 1..Len(pending) :
        LET file == pending[i].file
            mounted == pending[i].mounted
            fabricData == readExcelFile(file)
            validation == validateExcelStructure(fabricData)
            kept == removeDuplicates(fabricData)
        IN  /\ pending' = Remove(pending, i)
            /\ UNCHANGED <<ruleVars, activeTab, started, latest, exported>>
            /\ IF ~file.readable
               THEN /\ Caught(mounted, "Failed to read file")
                    /\ UNCHANGED <<validatorVars, built>>
               ELSE IF TooShort(file)
               THEN /\ Caught(mounted,
                              "Failed to parse Excel file: Excel file must "
                              \o "contain headers and at least one data row")
                    /\ UNCHANGED <<validatorVars, built>>
               ELSE IF validation # <<>>
               THEN /\ Caught(mounted, Join(validation, ", "))
                    /\ UNCHANGED <<validatorVars, built>>
               ELSE /\ built' = built + 1
                    /\ input' = fabricData
                    /\ callerRows' = fabricData
                    /\ shared' = KeptFrom(fabricData, kept)
                    /\ data' = kept
                    /\ originalDataCount' = Len(fabricData)
                    /\ duplicatesRemoved' = Len(fabricData) - Len(kept)
                    /\ rebuilt' = FALSE
                    /\ validateCalls' = 1
                    /\ dupInfo' = <<>>
                    /\ IF validateThrows(kept)
                       THEN /\ phase' = "failed"
                            /\ Caught(mounted, validateMessage(kept))
                            /\ UNCHANGED <<results, summary>>
                       ELSE /\ phase' = "validated"
                            /\ results' = validate(kept)
                            /\ summary' =
                                  <<getSummary(validate(kept), Len(fabricData),
                                               Len(fabricData) - Len(kept),
                                               Len(kept))>>
                            /\ handleDataUpdate(
                                   validate(kept),
                                   getSummary(validate(kept), Len(fabricData),
                                              Len(fabricData) - Len(kept),
                                              Len(kept)),
                                   fabricData)
                            /\ updates' = updates + 1
                            /\ IF mounted
                               THEN /\ pageResults' = <<validate(kept)>>
                                    /\ pageSummary' = summary'
                                    /\ error' = error
                                    /\ isLoading' = FALSE
                               ELSE IF activeTab = "validation"
                               THEN /\ pageResults' = validationData'
                                    /\ pageSummary' = summaryData'
                                    /\ UNCHANGED <<error, isLoading>>
                               ELSE UNCHANGED <<pageResults, pageSummary,
                                                error, isLoading>>
            /\ ValidationResultsAfter

\* handleReset (lines 68-77) with TabNavigation.handleDataReset;
\* ValidationResults, whose button calls it, is rendered while results is
\* not null and unmounts
HandleReset ==
    /\ activeTab = "validation"
    /\ pageResults # <<>>
    /\ pageResults' = <<>>
    /\ pageSummary' = <<>>
    /\ error' = ""
    /\ validationData' = <<>>
    /\ summaryData' = <<>>
    /\ rawFabricData' = <<>>
    /\ ValidationResultsMounts
    /\ UNCHANGED <<validatorVars, ruleVars, activeTab, pending, isLoading,
                   built, updates, started, latest, exported>>

\* setActiveTab(tab.id) of a tab button (part_002 line 95).  Leaving
\* 'validation' unmounts HomePage and ValidationResults, and the calls of
\* that HomePage that are pending go on; coming back mounts a HomePage
\* whose results and summary are initialResults and initialSummary (lines
\* 22-25).  The state of HomePage is held as that of a mount with nothing
\* to show while it is not mounted.
SetActiveTab ==
    \E tab \in Tabs :
        /\ activeTab' = tab
        /\ IF tab = activeTab
           THEN UNCHANGED <<pending, isLoading, error, pageResults,
                            pageSummary, filterVars, selectedRows, ticked>>
           ELSE /\ pending' = [i \in 1..Len(pending) |->
                                  [pending[i] EXCEPT !.mounted = FALSE]]
                /\ isLoading' = FALSE
                /\ error' = ""
                /\ pageResults' =
                      IF tab = "validation" THEN validationData ELSE <<>>
                /\ pageSummary' =
                      IF tab = "validation" THEN summaryData ELSE <<>>
                /\ ValidationResultsMounts
        /\ UNCHANGED <<validatorVars, ruleVars, validationData, summaryData,
                       rawFabricData, built, updates, started, latest,
                       exported>>

InitUpload == NothingYet(<<>>)

NextUpload == HandleFileUpload \/ FileRead \/ HandleReset \/ SetActiveTab

SpecUpload == InitUpload /\ [][NextUpload]_vars

---------------------------------------------------------------------------
(* One upload of a sheet with cells of every kind. *)

HandleWideFileUpload == HandleFileUploadOf(WideFiles, 1)

NextSheet ==
    HandleWideFileUpload \/ FileRead \/ HandleReset \/ SetActiveTab

SpecSheet == InitUpload /\ [][NextSheet]_vars

---------------------------------------------------------------------------
(* ValidationResults on the results of validate(): the filters, the row  *)
(* selection and the export.                                             *)

SearchTerms == {<<>>, <<"b">>}

StatusOptions ==
    {"all", "errors", "Good", "FAB-A Is BAD", "FAB-B Is BAD",
     "Both FABs Are BAD"}

FabricOptions == {"all", "OK", "Error"}

\* text.includes(part)
Includes(text, part) ==
    \E i \in 0..(Len(text) - Len(part)) :
        SubSeq(text, i + 1, i + Len(part)) = part

\* the predicate of the filter of lines 71-90
Matches(result, term, status, fabA, fabB) ==
    /\ Includes(toLowerCase(result.host), toLowerCase(term))
    /\ IF status = "errors" THEN result.finalValidation # "Good"
       ELSE IF status # "all" THEN result.finalValidation = status
       ELSE TRUE
    /\ fabA = "all" \/ result.validationA = fabA
    /\ fabB = "all" \/ result.validationB = fabB

\* filteredResults of a render with the state given, of the results that
\* HomePage hands to ValidationResults
FilteredWith(term, status, fabA, fabB) ==
    SelectSeq(pageResults[1],
              LAMBDA result : Matches(result, term, status, fabA, fabB))

filteredResults == FilteredWith(searchTerm, statusFilter, fabAFilter, fabBFilter)

\* list.filter((_, index) => indices.has(index)), indices counted from 0
AtIndices(list, indices) ==
    LET keep == {i \in 1..Len(list) : (i - 1) \in indices}
        nth(k) == CHOOSE i \in keep : Cardinality({j \in keep : j < i}) = k - 1
    IN  [k \in 1..Cardinality(keep) |-> list[nth(k)]]

\* HomePage renders ValidationResults (HomePage.tsx lines 85-97)
Rendered == activeTab = "validation" /\ pageResults # <<>>

SetSearchTerm ==
    /\ Rendered
    /\ \E term \in SearchTerms :
        /\ searchTerm' = term
        /\ UNCHANGED <<validatorVars, ruleVars, uploadVars, statusFilter,
                       fabAFilter, fabBFilter, selectedRows, ticked,
                       exported>>

SetStatusFilter ==
    /\ Rendered
    /\ \E option \in StatusOptions :
        /\ statusFilter' = option
        /\ UNCHANGED <<validatorVars, ruleVars, uploadVars, searchTerm,
                       fabAFilter, fabBFilter, selectedRows, ticked,
                       exported>>

SetFabAFilter ==
    /\ Rendered
    /\ \E option \in FabricOptions :
        /\ fabAFilter' = option
        /\ UNCHANGED <<validatorVars, ruleVars, uploadVars, searchTerm,
                       statusFilter, fabBFilter, selectedRows, ticked,
                       exported>>

SetFabBFilter ==
    /\ Rendered
    /\ \E option \in FabricOptions :
        /\ fabBFilter' = option
        /\ UNCHANGED <<validatorVars, ruleVars, uploadVars, searchTerm,
                       statusFilter, fabAFilter, selectedRows, ticked,
                       exported>>

\* handleRowSelect(index) from the box of row index of the table
HandleRowSelect ==
    /\ Rendered
    /\ \E index \in 0..(Len(filteredResults) - 1) :
        /\ IF index \in selectedRows
           THEN /\ selectedRows' = selectedRows \ {index}
                /\ ticked' = ticked \ {filteredResults[index + 1].host}
           ELSE /\ selectedRows' = selectedRows \cup {index}
                /\ ticked' = ticked \cup {filteredResults[index + 1].host}
        /\ UNCHANGED <<validatorVars, ruleVars, uploadVars, filterVars,
                       exported>>

\* handleSelectAll from the box of the table head, rendered when the
\* table has rows
HandleSelectAll ==
    /\ Rendered
    /\ Len(filteredResults) > 0
    /\ IF Cardinality(selectedRows) = Len(filteredResults)
       THEN /\ selectedRows' = {}
            /\ ticked' = {}
       ELSE /\ selectedRows' = 0..(Len(filteredResults) - 1)
            /\ ticked' = {filteredResults[i].host :
                             i \in 1..Len(filteredResults)}
    /\ UNCHANGED <<validatorVars, ruleVars, uploadVars, filterVars,
                   exported>>

\* the "Clear Selection" button (line 265), rendered while selectedRows
\* is not empty
ClearSelection ==
    /\ Rendered
    /\ selectedRows # {}
    /\ selectedRows' = {}
    /\ ticked' = {}
    /\ UNCHANGED <<validatorVars, ruleVars, uploadVars, filterVars,
                   exported>>

\* handleExport: the rows handed to ExcelUtils.exportToExcel
HandleExport ==
    /\ Rendered
    /\ exported' = <<IF Cardinality(selectedRows) > 0
                      THEN AtIndices(filteredResults, selectedRows)
                      ELSE filteredResults>>
    /\ UNCHANGED <<validatorVars, ruleVars, uploadVars, filterVars,
                   selectedRows, ticked>>

ClearFilters ==
    /\ Rendered
    /\ searchTerm' = <<>>
    /\ statusFilter' = "all"
    /\ fabAFilter' = "all"
    /\ fabBFilter' = "all"
    /\ selectedRows' = {}
    /\ ticked' = {}
    /\ UNCHANGED <<validatorVars, ruleVars, uploadVars, exported>>

\* one upload of a sheet of the rows of the results table
HandleViewFileUpload == HandleFileUploadOf(ViewFiles, 1)

InitView == NothingYet(<<>>)

NextView ==
    \/ HandleViewFileUpload
    \/ FileRead
    \/ HandleReset
    \/ SetActiveTab
    \/ SetSearchTerm
    \/ SetStatusFilter
    \/ SetFabAFilter
    \/ SetFabBFilter
    \/ HandleRowSelect
    \/ HandleSelectAll
    \/ ClearSelection
    \/ HandleExport
    \/ ClearFilters

SpecView == InitView /\ [][NextView]_vars

---------------------------------------------------------------------------
(* The two rule functions called directly on their whole domain. *)

InitRule == NothingYet(<<>>)

CallValidateFabric ==
    \E l \in 0..MaxCount, n \in 0..MaxCount :
        /\ vfArgs' = <<l, n>>
        /\ vfRes' = validateFabric(l, n)
        /\ UNCHANGED <<validatorVars, fvArgs, fvRes,
                   pageVars>>

CallGetFinalValidation ==
    \E a \in {"OK", "Error"}, b \in {"OK", "Error"} :
        /\ fvArgs' = <<a, b>>
        /\ fvRes' = getFinalValidation(a, b)
        /\ UNCHANGED <<validatorVars, vfArgs, vfRes,
                   pageVars>>

NextRule == CallValidateFabric \/ CallGetFinalValidation

SpecRule == InitRule /\ [][NextRule]_vars

---------------------------------------------------------------------------
(* Properties of the rule functions, under SpecRule. *)

\* C1: for all non-negative integers (l, n), validateFabric(l, n) returns
\* OK exactly when (l, n) is (2, 2) or (1, 0), and Error for every other
\* pair, (0, 0) included.
C1_RuleTotality ==
    vfRes # "none" =>
        /\ vfRes \in {"OK", "Error"}
        /\ vfRes = "OK" <=> vfArgs \in {<<2, 2>>, <<1, 0>>}
        /\ vfArgs = <<0, 0>> => vfRes = "Error"

C1_Witness == vfArgs = <<2, 2>> /\ vfRes = "OK"

\* C2: getFinalValidation is total on the four OK/Error pairs: Good when
\* both are OK, Both FABs Are BAD when both are Error, FAB-A Is BAD when
\* only A is Error, FAB-B Is BAD when only B is Error.
C2_FinalTotality ==
    fvRes # "none" =>
        /\ fvArgs = <<"OK", "OK">> => fvRes = "Good"
        /\ fvArgs = <<"Error", "Error">> => fvRes = "Both FABs Are BAD"
        /\ fvArgs = <<"Error", "OK">> => fvRes = "FAB-A Is BAD"
        /\ fvArgs = <<"OK", "Error">> => fvRes = "FAB-B Is BAD"

C2_Witness == fvArgs = <<"OK", "Error">> /\ fvRes = "FAB-B Is BAD"

---------------------------------------------------------------------------
(* Properties of the validator, under Spec. *)

Triple(r) == <<r.Fabric, r.Alias, r.WWN>>

HostOf(r) == extractHostName(r.Alias.v)

Returned == phase = "validated"

\* the number of retained rows of host h on fabric f that are (li = TRUE) or
\* are not (li = FALSE) logged in
RowsOn(h, f, li) ==
    Cardinality({i \in 1..Len(data) :
                    /\ HostOf(data[i]) = h
                    /\ data[i].Fabric = Str(f)
                    /\ IsLoggedIn(data[i]) = li})

ShapeOK(h, f) ==
    <<RowsOn(h, f, TRUE), RowsOn(h, f, FALSE)>> \in {<<2, 2>>, <<1, 0>>}

\* C3: for every host in the output of validate(), validationA is OK exactly
\* when the retained rows of that host on FAB-A number (2 logged in, 2 not)
\* or (1, 0), likewise validationB on FAB-B, and finalValidation is Good
\* exactly when both hold; the host of Scenario 1 is Good.
C3_EndToEnd ==
    Returned =>
        /\ \A i \in 1..Len(results) :
            /\ results[i].validationA = "OK" <=> ShapeOK(results[i].host, FAB_A)
            /\ results[i].validationB = "OK" <=> ShapeOK(results[i].host, FAB_B)
            /\ results[i].finalValidation = "Good" <=>
                  (ShapeOK(results[i].host, FAB_A)
                   /\ ShapeOK(results[i].host, FAB_B))
        /\ input = Scenario1 =>
            /\ Len(results) = 1
            /\ results[1].host = <<"s", "r", "v", "1">>
            /\ results[1].validationA = "OK"
            /\ results[1].validationB = "OK"
            /\ results[1].finalValidation = "Good"

C3_Witness ==
    /\ Returned
    /\ input = Scenario1
    /\ Len(results) = 1
    /\ results[1].fabA_LoggedInYes = 2 /\ results[1].fabA_LoggedInNo = 2
    /\ results[1].fabB_LoggedInYes = 2 /\ results[1].fabB_LoggedInNo = 2
    /\ results[1].finalValidation = "Good"

\* C4: the rows the constructor retains hold no two rows with the same
\* (Fabric, Alias, Member WWN / D,P) triple, and are at most as many as the
\* rows given.
C4_NoDuplicateTriple ==
    phase # "new" =>
        /\ \A i, j \in 1..Len(data) :
                i # j => Triple(data[i]) # Triple(data[j])
        /\ Len(data) <= originalDataCount
        /\ ~rebuilt => originalDataCount = Len(input)

C4_Witness ==
    /\ phase = "constructed"
    /\ ~rebuilt
    /\ Len(input) = 3
    /\ Triple(input[1]) = Triple(input[3])
    /\ Len(data) = 2

FirstOccurrence(rows, i) ==
    \A j \in 1..(i - 1) : Triple(rows[j]) # Triple(rows[i])

\* the rows of a sequence that no earlier row equals in the triple, in order
FirstOccurrences(rows) ==
    LET idx == {i \in 1..Len(rows) : FirstOccurrence(rows, i)}
        nth(k) == CHOOSE i \in idx : Cardinality({j \in idx : j < i}) = k - 1
    IN  [k \in 1..Cardinality(idx) |-> rows[nth(k)]]

\* C5: removeDuplicates drops a row if and only if an earlier row has the
\* identical (Fabric, Alias, Member WWN / D,P) triple, compared field by
\* field, whatever characters the fields hold.
C5_DropsIffSameTriple ==
    (phase = "constructed" /\ ~rebuilt) => data = FirstOccurrences(input)

\* C6: any two input rows with distinct triples are both represented in the
\* retained rows, each by the first row with its triple, in the order of
\* the input.
C6_DistinctKeysKeptInOrder ==
    (phase = "constructed" /\ ~rebuilt) =>
        \A i, j \in 1..Len(input) :
            (i < j /\ FirstOccurrence(input, i) /\ FirstOccurrence(input, j))
            => \E p, q \in 1..Len(data) :
                    p < q /\ data[p] = input[i] /\ data[q] = input[j]

\* C7: removeDuplicates applied to its own output returns it unchanged, so
\* a validator constructed from retained rows removes no duplicate.
C7_DedupIdempotent ==
    rebuilt =>
        /\ data = removeDuplicates(input)
        /\ duplicatesRemoved = 0
        /\ originalDataCount = Len(data)

C7_Witness ==
    /\ rebuilt
    /\ Len(input) = 3
    /\ Len(data) = 2
    /\ duplicatesRemoved = 0

\* C8: constructing a validator and calling validate() never raises,
\* whatever the rows, rows with an absent or non-string Alias or Logged In
\* included.
C8_NeverRaises == phase # "failed"

\* C9 as stated: the results are in ascending order of the code units of
\* their hosts.
C9_CodeUnitSorted ==
    Returned =>
        \A i \in 1..(Len(results) - 1) :
            CodeUnitCompare(results[i].host, results[i + 1].host) < 0

\* C9: the results are in ascending order of localeCompare on their hosts:
\* no result's host compares above the host of the result that follows it.
C9_LocaleSorted ==
    Returned =>
        \A i \in 1..(Len(results) - 1) :
            localeCompare(results[i].host, results[i + 1].host) <= 0

C9_Witness ==
    /\ Returned
    /\ Len(data) = 3
    /\ HostOf(data[1]) = <<"c">>
    /\ HostOf(data[2]) = <<"B">>
    /\ HostOf(data[3]) = <<"a">>
    /\ Len(results) = 3
    /\ results[1].host = <<"a">>
    /\ results[2].host = <<"B">>
    /\ results[3].host = <<"c">>

\* C10: validate() returns exactly one result per distinct host of the
\* retained rows: no two results share a host, every result's host is the
\* host of a retained row, every retained row's host has a result.
C10_OneResultPerHost ==
    Returned =>
        /\ \A i, j \in 1..Len(results) :
                i # j => results[i].host # results[j].host
        /\ {results[i].host : i \in 1..Len(results)}
                = {HostOf(data[i]) : i \in 1..Len(data)}

C10_Witness ==
    /\ Returned
    /\ Len(data) = 3
    /\ Len(results) = 2
    /\ HostOf(data[1]) = HostOf(data[3])
    /\ HostOf(data[1]) # HostOf(data[2])

---------------------------------------------------------------------------
(* Properties of getSummary and getDuplicateInfo. *)

\* C11: for the results of validate(), getSummary reports total = number of
\* results and good + fabABad + fabBBad + bothBad = total.
C11_SummaryPartition ==
    (phase = "validated" /\ Len(summary) = 1) =>
        /\ summary[1].total = Len(results)
        /\ summary[1].good + summary[1].fabABad + summary[1].fabBBad
                + summary[1].bothBad = summary[1].total

C11_Witness ==
    /\ phase = "validated"
    /\ Len(summary) = 1
    /\ summary[1].total = 2
    /\ summary[1].good = 1
    /\ summary[1].fabBBad = 1

SameCounts(report) ==
    /\ report.originalEntries = originalDataCount
    /\ report.duplicatesRemoved = duplicatesRemoved
    /\ report.uniqueEntries = Len(data)
    /\ report.uniqueEntries + report.duplicatesRemoved
            = report.originalEntries

\* C12: for every constructed validator uniqueEntries + duplicatesRemoved =
\* originalEntries, with originalEntries the input length, uniqueEntries the
\* number of retained rows and duplicatesRemoved >= 0; getSummary and
\* getDuplicateInfo report the same three values.
C12_CountsConsistent ==
    phase # "new" =>
        /\ originalDataCount = Len(input)
        /\ Len(data) + duplicatesRemoved = originalDataCount
        /\ duplicatesRemoved >= 0
        /\ Len(summary) = 1 => SameCounts(summary[1])
        /\ Len(dupInfo) = 1 => SameCounts(dupInfo[1])

C12_Witness ==
    /\ Len(summary) = 1
    /\ Len(dupInfo) = 1
    /\ dupInfo[1].originalEntries = 3
    /\ dupInfo[1].duplicatesRemoved = 1
    /\ summary[1].uniqueEntries = 2

\* 100 * good / total rounded to the nearest integer, a half going up
RoundedPercent(good, total) == (200 * good + total) \div (2 * total)

\* C13: getSummary returns percentageGood = 100 * good / total rounded to
\* the nearest integer (exact halves rounded up) whenever total > 0, and 0
\* when total = 0; the value is an integer between 0 and 100.
C13_PercentageRounded ==
    Len(summary) = 1 =>
        /\ summary[1].percentageGood \in 0..100
        /\ summary[1].total = 0 => summary[1].percentageGood = 0
        /\ summary[1].total > 0 =>
              summary[1].percentageGood
                  = RoundedPercent(summary[1].good, summary[1].total)

\* C14: a validate() call leaves the retained rows and the duplicate
\* counters unchanged, and one that follows another validate() call with no
\* operation in between returns an equal result sequence.
C14_ValidateIdempotent ==
    [][(validateCalls' = validateCalls + 1 /\ phase' = "validated") =>
          /\ data' = data
          /\ originalDataCount' = originalDataCount
          /\ duplicatesRemoved' = duplicatesRemoved
          /\ phase = "validated" => results' = results]_vars

C14_Witness ==
    /\ phase = "validated"
    /\ validateCalls = 2
    /\ Len(results) = 2
    /\ duplicatesRemoved = 1

\* the summary of a validator built from the rows given
SummaryOf(given) ==
    getSummary(validate(removeDuplicates(given)), Len(given),
               Len(given) - Len(removeDuplicates(given)),
               Len(removeDuplicates(given)))

\* C15: whatever the caller does to its input array or to the row objects
\* in it after construction, the retained rows and the two counts stay what
\* construction made them, and validate() and getSummary() return what they
\* return for the input as it was at construction.
C15_InputMutationUnobserved ==
    phase # "new" =>
        /\ data = removeDuplicates(input)
        /\ originalDataCount = Len(input)
        /\ duplicatesRemoved = Len(input) - Len(removeDuplicates(input))
        /\ phase = "validated" => results = validate(removeDuplicates(input))
        /\ Len(summary) = 1 => summary[1] = SummaryOf(input)


NoRowsOn(h, f) == RowsOn(h, f, TRUE) + RowsOn(h, f, FALSE) = 0

\* C16: a host in the output of validate() with no retained row on a fabric
\* has counts (0, 0) and Error for that fabric; a host with exactly one
\* logged-in FAB-A row and no FAB-B row gets validationA = OK, validationB =
\* Error and finalValidation = 'FAB-B Is BAD'.
C16_AbsentFabricIsError ==
    Returned =>
        \A i \in 1..Len(results) :
            LET r == results[i]
            IN  /\ NoRowsOn(r.host, FAB_A) =>
                    /\ r.fabA_LoggedInYes = 0 /\ r.fabA_LoggedInNo = 0
                    /\ r.validationA = "Error"
                /\ NoRowsOn(r.host, FAB_B) =>
                    /\ r.fabB_LoggedInYes = 0 /\ r.fabB_LoggedInNo = 0
                    /\ r.validationB = "Error"
                /\ (/\ RowsOn(r.host, FAB_A, TRUE) = 1
                    /\ RowsOn(r.host, FAB_A, FALSE) = 0
                    /\ NoRowsOn(r.host, FAB_B)) =>
                    /\ r.validationA = "OK"
                    /\ r.validationB = "Error"
                    /\ r.finalValidation = "FAB-B Is BAD"

C16_Witness ==
    /\ Returned
    /\ Len(data) = 1
    /\ data[1].Fabric = Str(FAB_A)
    /\ Len(results) = 1
    /\ results[1].fabA_LoggedInYes = 1 /\ results[1].fabA_LoggedInNo = 0
    /\ results[1].fabB_LoggedInYes = 0 /\ results[1].fabB_LoggedInNo = 0
    /\ results[1].validationB = "Error"
    /\ results[1].finalValidation = "FAB-B Is BAD"

Recognised(fabric) == fabric \in {Str(FAB_A), Str(FAB_B)}

OnRecognisedFabric(r) == Recognised(r.Fabric)

\* the retained rows without those of an unrecognised fabric
RecognisedRows == SelectSeq(data, OnRecognisedFabric)

\* C17 as stated: validate() returns the same hosts with the same counters,
\* wwns and verdicts as it does without the rows of an unrecognised fabric.
C17_UnrecognisedIgnored == Returned => results = validate(RecognisedRows)

HasRecognisedRow(res) ==
    \E k \in 1..Len(data) :
        HostOf(data[k]) = res.host /\ OnRecognisedFabric(data[k])

WWNOnRecognisedFabric(w) == Recognised(w.fabric)

WithoutUnrecognisedWWNs(res) ==
    [res EXCEPT !.wwns = SelectSeq(res.wwns, WWNOnRecognisedFabric)]

\* C17 amended: a row of an unrecognised fabric increments no counter.  The
\* results of the hosts that have a FAB-A or FAB-B row are, in the same
\* order, those validate() returns without such rows, once the wwns entries
\* of an unrecognised fabric are left out; a host with no other row gets a
\* result with all counters 0 and 'Both FABs Are BAD', and every such row
\* has a wwns entry.
C17_UnrecognisedNotCounted ==
    Returned =>
        LET kept == SelectSeq(results, HasRecognisedRow)
        IN  /\ [i \in 1..Len(kept) |-> WithoutUnrecognisedWWNs(kept[i])]
                    = validate(RecognisedRows)
            /\ \A i \in 1..Len(results) :
                    ~HasRecognisedRow(results[i]) =>
                        /\ results[i].fabA_LoggedInYes = 0
                        /\ results[i].fabA_LoggedInNo = 0
                        /\ results[i].fabB_LoggedInYes = 0
                        /\ results[i].fabB_LoggedInNo = 0
                        /\ results[i].validationA = "Error"
                        /\ results[i].validationB = "Error"
                        /\ results[i].finalValidation = "Both FABs Are BAD"
            /\ \A k \in 1..Len(data) :
                    ~OnRecognisedFabric(data[k]) =>
                        \E i \in 1..Len(results) :
                            /\ results[i].host = HostOf(data[k])
                            /\ \E j \in 1..Len(results[i].wwns) :
                                  /\ results[i].wwns[j].wwn = data[k].WWN
                                  /\ results[i].wwns[j].fabric = data[k].Fabric

\* a host with one row on FAB-A and one on an unrecognised fabric
C17_Witness ==
    /\ Returned
    /\ Len(data) = 2
    /\ data[1].Fabric = Str(FAB_A)
    /\ data[2].Fabric = Str(FAB_C)
    /\ Len(results) = 1
    /\ results[1].fabA_LoggedInYes = 1
    /\ Len(results[1].wwns) = 2

\* the structural pre-check has something to report on rows: a required
\* column is missing or some row has a non-empty Fabric value other than
\* FAB-A and FAB-B
PreCheckFails(rows) ==
    /\ Len(rows) > 0
    /\ \/ \E column \in {"Fabric", "Alias", "LoggedIn"} :
              rows[1][column] = Undefined
       \/ \E k \in 1..Len(rows) :
              Truthy(rows[k].Fabric) /\ ~ValidFabric(rows[k].Fabric)

\* C18: when handleFileUpload resumes with the rows of a file that was
\* read, on which the pre-check has something to report, it constructs no
\* FabricValidator and does not call onDataUpdate, after it results and
\* summary are null, and the error of the HomePage that is shown is the
\* pre-check messages joined by ', '.
C18_CoreOnlyAfterPreCheck ==
    [][\A i \in 1..Len(pending) :
          (/\ pending' = Remove(pending, i)
           /\ activeTab' = activeTab
           /\ pending[i].file.readable
           /\ ~TooShort(pending[i].file)
           /\ PreCheckFails(readExcelFile(pending[i].file))) =>
              /\ built' = built
              /\ UNCHANGED validatorVars
              /\ pageResults' = <<>>
              /\ pageSummary' = <<>>
              /\ updates' = updates
              /\ UNCHANGED <<validationData, summaryData, rawFabricData>>
              /\ activeTab = "validation" =>
                    /\ error' # ""
                    /\ error' = Join(validateExcelStructure(
                                         readExcelFile(pending[i].file)), ", ")
                    /\ isLoading' = FALSE]_vars

AbsentOrEmpty(x) == x \in {Undefined, Str(<<>>)}

SameFabricAndAlias(r, s) == r.Fabric = s.Fabric /\ r.Alias = s.Alias

\* C19: in the dedup key an absent field counts as the empty string: of the
\* rows with one Fabric and Alias whose Member WWN / D,P is absent or empty
\* at most one is retained; and an absent field equals no non-empty value:
\* a row with a non-empty Member WWN / D,P that no earlier row has is
\* retained when an earlier row with its Fabric and Alias has none.
C19_AbsentIsEmpty ==
    (phase = "constructed" /\ ~rebuilt) =>
        /\ \A p, q \in 1..Len(data) :
              (/\ p < q
               /\ SameFabricAndAlias(data[p], data[q])
               /\ AbsentOrEmpty(data[p].WWN)) => ~AbsentOrEmpty(data[q].WWN)
        /\ \A i, j \in 1..Len(input) :
              (/\ i < j
               /\ SameFabricAndAlias(input[i], input[j])
               /\ input[i].WWN = Undefined
               /\ ~AbsentOrEmpty(input[j].WWN)
               /\ FirstOccurrence(input, j)) =>
                  \E q \in 1..Len(data) : data[q] = input[j]

\* the first row of the input with the triple of row r
FirstWithTriple(r) ==
    input[CHOOSE i \in 1..Len(input) :
              /\ Triple(input[i]) = Triple(r)
              /\ \A h \in 1..(i - 1) : Triple(input[h]) # Triple(r)]

\* C20: Logged In is not part of the dedup key: every retained row is the
\* first input row with its (Fabric, Alias, Member WWN / D,P) triple, Logged
\* In included, no other row with that triple is retained, duplicatesRemoved
\* counts the dropped rows, and the counters validate() returns count the
\* retained rows; of two rows that differ in Logged In only, 'yes' then
\* 'no', the first is retained and its host has 1 logged in, 0 not.
C20_LoggedInNotInKey ==
    (phase # "new" /\ ~rebuilt) =>
        /\ \A q \in 1..Len(data) : data[q] = FirstWithTriple(data[q])
        /\ \A p, q \in 1..Len(data) :
              Triple(data[p]) = Triple(data[q]) => p = q
        /\ duplicatesRemoved = Len(input) - Len(data)
        /\ Returned =>
              \A i \in 1..Len(results) :
                  /\ results[i].fabA_LoggedInYes
                        = RowsOn(results[i].host, FAB_A, TRUE)
                  /\ results[i].fabA_LoggedInNo
                        = RowsOn(results[i].host, FAB_A, FALSE)
                  /\ results[i].fabB_LoggedInYes
                        = RowsOn(results[i].host, FAB_B, TRUE)
                  /\ results[i].fabB_LoggedInNo
                        = RowsOn(results[i].host, FAB_B, FALSE)
        /\ (/\ Len(input) = 2
            /\ Triple(input[1]) = Triple(input[2])
            /\ input[1].LoggedIn # input[2].LoggedIn) =>
              /\ data = <<input[1]>>
              /\ duplicatesRemoved = 1

\* Scenario 3, and the same with 'yes' then 'no'
C20_Witness ==
    /\ Returned
    /\ ~rebuilt
    /\ Len(input) = 2
    /\ Triple(input[1]) = Triple(input[2])
    /\ input[1].Fabric = Str(FAB_A)
    /\ input[1].LoggedIn = Str(YES)
    /\ input[2].LoggedIn = Str(<<"n", "o">>)
    /\ data = <<input[1]>>
    /\ duplicatesRemoved = 1
    /\ Len(results) = 1
    /\ results[1].fabA_LoggedInYes = 1
    /\ results[1].fabA_LoggedInNo = 0

---------------------------------------------------------------------------
(* Properties of the grouping, the counters and the wwns. *)

\* C21: for an empty input row sequence validate() returns an empty
\* sequence, and getSummary of it reports total = 0, percentageGood = 0,
\* originalEntries = 0, duplicatesRemoved = 0 and uniqueEntries = 0.
C21_EmptyInput ==
    input = <<>> =>
        /\ phase # "failed"
        /\ Returned => results = <<>>
        /\ (Returned /\ Len(summary) = 1) =>
              /\ summary[1].total = 0
              /\ summary[1].percentageGood = 0
              /\ summary[1].originalEntries = 0
              /\ summary[1].duplicatesRemoved = 0
              /\ summary[1].uniqueEntries = 0

C21_Witness ==
    /\ input = <<>>
    /\ Returned
    /\ results = <<>>
    /\ Len(summary) = 1
    /\ summary[1].total = 0
    /\ summary[1].percentageGood = 0

\* the spellings of "yes" in upper and lower case letters
YesSpellings ==
    {<<y, e, s>> : y \in {"y", "Y"}, e \in {"e", "E"}, s \in {"s", "S"}}

\* the number of retained rows of host h on fabric f whose Logged In text
\* is (li = TRUE) or is not (li = FALSE) a spelling of "yes"
RowsSpelt(h, f, li) ==
    Cardinality({i \in 1..Len(data) :
                    /\ HostOf(data[i]) = h
                    /\ data[i].Fabric = Str(f)
                    /\ (data[i].LoggedIn.v \in YesSpellings) = li})

\* C22: a row counts as logged in exactly when its Logged In text is "yes"
\* in any letter case; every other text, the empty one and "yes" with a
\* space before it included, counts as not logged in and increments the
\* notLoggedIn counter of its fabric.
C22_LoggedInIgnoringCase ==
    Returned =>
        \A i \in 1..Len(results) :
            /\ results[i].fabA_LoggedInYes
                  = RowsSpelt(results[i].host, FAB_A, TRUE)
            /\ results[i].fabA_LoggedInNo
                  = RowsSpelt(results[i].host, FAB_A, FALSE)
            /\ results[i].fabB_LoggedInYes
                  = RowsSpelt(results[i].host, FAB_B, TRUE)
            /\ results[i].fabB_LoggedInNo
                  = RowsSpelt(results[i].host, FAB_B, FALSE)

C22_Witness ==
    /\ Returned
    /\ Len(data) = 2
    /\ data[1].LoggedIn = Str(<<"Y", "E", "S">>)
    /\ data[2].LoggedIn = Str(<<" ", "y", "e", "s">>)
    /\ Len(results) = 1
    /\ results[1].fabA_LoggedInYes = 1
    /\ results[1].fabA_LoggedInNo = 1

\* the alias up to its last underscore, the alias itself when it has none
BeforeLastUnderscore(alias) ==
    CHOOSE prefix \in {SubSeq(alias, 1, n) : n \in 0..Len(alias)} :
        IF \E i \in 1..Len(alias) : alias[i] = "_"
        THEN /\ Len(prefix) < Len(alias)
             /\ alias[Len(prefix) + 1] = "_"
             /\ \A j \in (Len(prefix) + 2)..Len(alias) : alias[j] # "_"
        ELSE prefix = alias

\* the recognised-fabric rows counted in a result
CountedIn(res) ==
    res.fabA_LoggedInYes + res.fabA_LoggedInNo
        + res.fabB_LoggedInYes + res.fabB_LoggedInNo

\* C23: the host of a row is its alias with the last underscore and what
\* follows it removed, the alias unchanged when it has no underscore,
\* whatever the other fields of the row; MN01_1-1-A_FE_FC01_PG01 gives
\* MN01_1-1-A_FE_FC01; the rows counted in one result are the rows whose
\* aliases have the same text before the last underscore.
C23_HostFromAlias ==
    Returned =>
        /\ {results[i].host : i \in 1..Len(results)}
              = {BeforeLastUnderscore(data[k].Alias.v) : k \in 1..Len(data)}
        /\ \A i \in 1..Len(results) :
              CountedIn(results[i])
                  = Cardinality({k \in 1..Len(data) :
                        /\ BeforeLastUnderscore(data[k].Alias.v)
                              = results[i].host
                        /\ Recognised(data[k].Fabric)})
        /\ \A k \in 1..Len(data) :
              data[k].Alias.v = ExampleAlias =>
                  \E i \in 1..Len(results) :
                      results[i].host
                          = <<"M", "N", "0", "1", "_", "1", "-", "1", "-",
                              "A", "_", "F", "E", "_", "F", "C", "0", "1">>

C23_Witness ==
    /\ Returned
    /\ Len(data) = 2
    /\ data[1].Alias.v = ExampleAlias
    /\ data[2].Alias.v = <<"a", "_", "b", "_", "1">>
    /\ Len(results) = 2
    /\ results[1].host = <<"a", "_", "b">>
    /\ results[2].host = ExampleHost

\* the number of retained rows of host h whose Fabric is f
RowsOfFabric(h, f) ==
    Cardinality({k \in 1..Len(data) :
                    HostOf(data[k]) = h /\ data[k].Fabric = Str(f)})

\* C24: for every host in the results, fabA_LoggedInYes + fabA_LoggedInNo
\* is the number of retained rows of the host whose Fabric is FAB-A and
\* fabB_LoggedInYes + fabB_LoggedInNo the number whose Fabric is FAB-B: a
\* row increments one counter of its own fabric by one, a row with another
\* Fabric value none.
C24_CountersCountRows ==
    Returned =>
        \A i \in 1..Len(results) :
            /\ results[i].fabA_LoggedInYes + results[i].fabA_LoggedInNo
                  = RowsOfFabric(results[i].host, FAB_A)
            /\ results[i].fabB_LoggedInYes + results[i].fabB_LoggedInNo
                  = RowsOfFabric(results[i].host, FAB_B)
            /\ results[i].fabA_LoggedInYes >= 0
            /\ results[i].fabA_LoggedInNo >= 0
            /\ results[i].fabB_LoggedInYes >= 0
            /\ results[i].fabB_LoggedInNo >= 0

\* two FAB-A rows and a FAB-B row of one host
C24_Witness ==
    /\ Returned
    /\ Len(data) = 3
    /\ Len(results) = 1
    /\ results[1].fabA_LoggedInYes = 1
    /\ results[1].fabA_LoggedInNo = 1
    /\ results[1].fabB_LoggedInYes = 0
    /\ results[1].fabB_LoggedInNo = 1

\* the first retained row of host h with WWN w on fabric f, 0 if none
FirstRowWith(h, w, f) ==
    LET rows == {k \in 1..Len(data) :
                    /\ HostOf(data[k]) = h
                    /\ data[k].WWN = w
                    /\ data[k].Fabric = f}
    IN  IF rows = {} THEN 0
        ELSE CHOOSE k \in rows : \A other \in rows : k <= other

\* C25: the wwns of a host's result hold one entry for each distinct (WWN,
\* fabric) pair of the host's retained rows, no two entries with the same
\* pair, in the order in which the pairs first occur in the retained rows.
C25_WwnsOnePerPair ==
    Returned =>
        \A i \in 1..Len(results) :
            LET h == results[i].host
                wwns == results[i].wwns
            IN  /\ \A p, q \in 1..Len(wwns) :
                      (wwns[p].wwn = wwns[q].wwn
                       /\ wwns[p].fabric = wwns[q].fabric) => p = q
                /\ {<<wwns[p].wwn, wwns[p].fabric>> : p \in 1..Len(wwns)}
                      = {<<data[k].WWN, data[k].Fabric>> :
                            k \in {n \in 1..Len(data) : HostOf(data[n]) = h}}
                /\ \A p, q \in 1..Len(wwns) :
                      p < q =>
                          FirstRowWith(h, wwns[p].wwn, wwns[p].fabric)
                              < FirstRowWith(h, wwns[q].wwn, wwns[q].fabric)

\* two aliases of one host with the same WWN on the same fabric
C25_Witness ==
    /\ Returned
    /\ Len(data) = 2
    /\ data[1].Alias # data[2].Alias
    /\ data[1].WWN = data[2].WWN
    /\ data[1].Fabric = data[2].Fabric
    /\ Len(results) = 1
    /\ Len(results[1].wwns) = 1

\* C27: for every result and each of FAB-A and FAB-B, the wwns entries of
\* the fabric that are logged in are as many as the fabric's logged-in
\* counter and those that are not as many as its not-logged-in counter:
\* the figures ConnectionMatrix derives from wwns are those of the
\* counters.
C27_WwnsAgreeWithCounters ==
    Returned =>
        \A i \in 1..Len(results) :
            /\ loggedInCount(results[i], Str(FAB_A))
                  = results[i].fabA_LoggedInYes
            /\ totalCount(results[i], Str(FAB_A))
                    - loggedInCount(results[i], Str(FAB_A))
                  = results[i].fabA_LoggedInNo
            /\ loggedInCount(results[i], Str(FAB_B))
                  = results[i].fabB_LoggedInYes
            /\ totalCount(results[i], Str(FAB_B))
                    - loggedInCount(results[i], Str(FAB_B))
                  = results[i].fabB_LoggedInNo

---------------------------------------------------------------------------
(* Properties of the upload flow. *)

\* C26: every row that handleFileUpload hands to the validator has a
\* non-empty Alias and a Fabric that is FAB-A or FAB-B; for every result
\* the four counters add up to the number of retained rows of its host,
\* which is at least 1, so no result has all four counters 0.
C26_UploadedRowsCounted ==
    built > 0 =>
        /\ \A k \in 1..Len(input) :
              /\ Truthy(input[k].Alias)
              /\ input[k].Fabric \in {Str(FAB_A), Str(FAB_B)}
        /\ \A k \in 1..Len(data) :
              /\ Truthy(data[k].Alias)
              /\ data[k].Fabric \in {Str(FAB_A), Str(FAB_B)}
        /\ Returned =>
              \A i \in 1..Len(results) :
                  /\ CountedIn(results[i])
                        = Cardinality({k \in 1..Len(data) :
                              HostOf(data[k]) = results[i].host})
                  /\ CountedIn(results[i]) >= 1
        /\ \A i \in 1..Len(pageResults) :
              \A j \in 1..Len(pageResults[i]) :
                  CountedIn(pageResults[i][j]) >= 1

\* a sheet with a row of each of two hosts, one on each fabric
C26_Witness ==
    /\ built = 1
    /\ Returned
    /\ Len(data) = 2
    /\ data[1].Fabric = Str(FAB_A)
    /\ data[2].Fabric = Str(FAB_B)
    /\ pageResults = <<results>>
    /\ Len(results) = 2
    /\ CountedIn(results[1]) = 1
    /\ CountedIn(results[2]) = 1

\* what handleFileUpload leaves in results for a file, with nothing else
\* going on: <<>> is null
ResultsFor(file) ==
    IF ~file.readable THEN <<>>
    ELSE IF TooShort(file) THEN <<>>
    ELSE IF validateExcelStructure(readExcelFile(file)) # <<>> THEN <<>>
    ELSE IF validateThrows(removeDuplicates(readExcelFile(file))) THEN <<>>
    ELSE <<validate(removeDuplicates(readExcelFile(file)))>>

\* and in summary
SummaryFor(file) ==
    IF ResultsFor(file) = <<>> THEN <<>>
    ELSE <<SummaryOf(readExcelFile(file))>>

\* C28: isLoading is true in every state in which a handleFileUpload call
\* has started and not finished, and when the last of the started calls
\* finishes the results shown are those of the call that started last,
\* also when a second upload starts while the first is reading its file.
C28_LoadingWhilePending ==
    /\ [](pending # <<>> => isLoading)
    /\ [][(pending # <<>> /\ pending' = <<>>) =>
              /\ pageResults' = ResultsFor(latest[1])
              /\ pageSummary' = SummaryFor(latest[1])]_vars

\* C29: when a selection exists, handleExport exports exactly the result
\* rows whose boxes the user ticked, after any sequence of selecting rows
\* and changing the search term or the filters.
C29_ExportsTickedRows ==
    [][(exported' # exported /\ selectedRows # {}) =>
          exported'[1] = SelectSeq(pageResults[1],
                                   LAMBDA r : r.host \in ticked)]_vars

\* C30: validationData, summaryData and rawFabricData of TabNavigation are
\* all null or all set, and when set they are the results, the summary and
\* the rows of one upload.
C30_TabDataFromOneUpload ==
    /\ validationData = <<>> <=> summaryData = <<>>
    /\ validationData = <<>> <=> rawFabricData = <<>>
    /\ rawFabricData # <<>> =>
          /\ validationData
                = <<validate(removeDuplicates(rawFabricData[1]))>>
          /\ summaryData = <<SummaryOf(rawFabricData[1])>>

\* the second of two uploads that both got through
C30_Witness ==
    /\ updates = 2
    /\ pending = <<>>
    /\ Len(rawFabricData) = 1
    /\ Len(rawFabricData[1]) = 2
    /\ Len(summaryData) = 1
    /\ summaryData[1].originalEntries = 2
    /\ summaryData[1].duplicatesRemoved = 1
    /\ Len(validationData) = 1
    /\ Len(validationData[1]) = 1
====
